---- MODULE Spec2Model ----
(***************************************************************************)
(* Homelab task manager: the status reconciler (scripts/sync-tasks.py) and *)
(* the dashboard pipeline (scripts/generate-dashboard.py).                 *)
(*                                                                         *)
(* The task store is a tree of five column directories holding one YAML    *)
(* document per file.  sync_tasks walks the columns in order and moves     *)
(* every record whose status names another column; load_tasks,             *)
(* calculate_stats and generate_html turn the same tree into a dashboard.  *)
(***************************************************************************)
EXTENDS Integers, Sequences, FiniteSets, TLC

\* ------------------------------------------------------------------------
\* Bounds of the model
\* ------------------------------------------------------------------------

\* Files in the initial tree of the reconciler.
MaxFiles == 2

\* I/O operations (read, write, delete) that may fail over one behaviour.
MaxFaults == 1

\* Files in the tree the dashboard is generated from.
MaxCards == 2

\* Files in a tree of well-formed records the dashboard is generated from.
MaxBatch == 4

\* ------------------------------------------------------------------------
\* Configuration of sync-tasks.py
\* ------------------------------------------------------------------------

VALID_COLUMNS == <<"backlog", "todo", "in_progress", "stalled", "done">>

ColSet == {VALID_COLUMNS[i] : i \in 1..Len(VALID_COLUMNS)}

\* File names matching *.yaml that a column directory may hold.
FileNames == {"a.yaml", "b.yaml"}

Paths == ColSet \X FileNames

\* ------------------------------------------------------------------------
\* Documents
\* ------------------------------------------------------------------------

\* Raw values of a key of a YAML mapping that are not strings: the key is
\* absent, or its value is null, a number, true or false.
Absent == "~absent"
Null == "~null"
NonStr == "~nonstring"
True == "~true"
False == "~false"

\* What yaml.safe_load makes of a file:
\*   "bad"    the parser raises yaml.YAMLError
\*   "empty"  a falsy document (None, {}, [], "", 0)
\*   "scalar" a truthy document that is not a mapping (a list, a string)
\*   "dict"   a mapping; status is the raw value of its status key, body
\*            stands for all its other fields, updated for its updated key
NoFile == [kind |-> "none", status |-> Absent, body |-> <<>>, updated |-> 0]

EmptyDoc == [kind |-> "empty", status |-> Absent, body |-> <<>>, updated |-> 0]

StatusRaw ==
    ColSet \cup {"TODO", "archived", Absent, NonStr}

\* The shapes an authored file can have; its body is set from where it lies.
DocShapes ==
    {[kind |-> k, status |-> Absent] : k \in {"bad", "empty", "scalar"}}
        \cup {[kind |-> "dict", status |-> s] : s \in StatusRaw}

MkDoc(shape, p) ==
    [kind |-> shape.kind, status |-> shape.status,
     body |-> IF shape.kind = "empty" THEN <<>> ELSE p, updated |-> 0]

\* str.lower() on the status strings of the model.
Lower(s) ==
    CASE s = "TODO" -> "todo"
      [] s = "HIGH" -> "high"
      [] OTHER -> s

VARIABLES
    fs,            \* the tree: path -> document, NoFile where no file is
    dirs,          \* the column directories that exist
    pc,            \* "scan" (inside the loop over a column's files), "done"
    ci,            \* index of current_column in VALID_COLUMNS
    pending,       \* files of column_dir.glob still to be visited
    moved_count,
    error_count,
    pass,          \* 1 for the first run of sync_tasks, 2 for the second
    now,           \* the clock datetime.utcnow() reads
    faults,        \* I/O failures so far
    fs0,           \* history: the tree before the first run
    first,         \* history: what the first run returned
    errAt,         \* history: errors raised while visiting a path, this run
    movAt,         \* history: moves counted while visiting a path, this run
    wfail,         \* history: <<path, document>> of sources whose write failed
    last,          \* history: the latest visit of a file
    tree,          \* dashboard: column -> the documents of its files, as listed
    treeDirs,      \* dashboard: the column directories that exist
    phase,         \* dashboard: how far main() has come
    tasks,         \* dashboard: column -> the loaded records
    errors,        \* dashboard: the diagnostics of load_tasks
    stats,         \* dashboard: the latest result of calculate_stats
    html           \* dashboard: the latest document of generate_html

syncVars ==
    <<fs, dirs, pc, ci, pending, moved_count, error_count, pass, now, faults,
      fs0, first, errAt, movAt, wfail, last>>

dashVars == <<tree, treeDirs, phase, tasks, errors, stats, html>>

vars == <<syncVars, dashVars>>

\* ------------------------------------------------------------------------
\* sync_tasks, line by line
\* ------------------------------------------------------------------------

\* task_data.get('status', '').lower() raises AttributeError when the value
\* under the key is not a string.
StatusRaises(doc) == doc.status = NonStr

yaml_status(doc) == Lower(IF doc.status = Absent THEN "" ELSE doc.status)

IsValidStatus(s) == s \in ColSet

\* The comparison of line 71 inverted.
MustMoveInverted(s, column) == s = column

MustMove(s, column) == s # column

\* The destination is the next column, whatever the status says.
dest_file_next_column(s, name) ==
    <<IF s = "done" THEN "done"
      ELSE VALID_COLUMNS[1 + CHOOSE i \in 1..4 : VALID_COLUMNS[i] = s], name>>

dest_file(s, name) == <<s, name>>

\* The record is written as it was read.
StampForgotten(doc, t) == doc

Stamp(doc, t) == [doc EXCEPT !.updated = t]

WriteFile(f, p, doc) == [f EXCEPT ![p] = doc]

\* The source is never removed.
UnlinkForgotten(f, p) == f

Unlink(f, p) == [f EXCEPT ![p] = NoFile]

\* A status that is no column name is taken for the column of the file.
VerdictLenient(doc, column) ==
    CASE doc.kind = "bad" -> "raise"
      [] doc.kind = "empty" -> "skip"
      [] doc.kind = "scalar" -> "raise"
      [] StatusRaises(doc) -> "raise"
      [] ~IsValidStatus(yaml_status(doc)) -> "inplace"
      [] MustMove(yaml_status(doc), column) -> "move"
      [] OTHER -> "inplace"

\* What the try block does with a document that was read: "raise" (an
\* exception before the status is known), "skip", "invalid", "inplace", "move".
Verdict(doc, column) ==
    CASE doc.kind = "bad" -> "raise"
      [] doc.kind = "empty" -> "skip"
      [] doc.kind = "scalar" -> "raise"
      [] StatusRaises(doc) -> "raise"
      [] ~IsValidStatus(yaml_status(doc)) -> "invalid"
      [] MustMove(yaml_status(doc), column) -> "move"
      [] OTHER -> "inplace"

\* column_dir.glob("*.yaml") on the tree f with the directories ds: nothing
\* when the directory does not exist.
Glob(f, ds, column) ==
    IF column \in ds
    THEN {n \in FileNames : f[<<column, n>>] # NoFile}
    ELSE {}

\* for current_column in VALID_COLUMNS: the index of the first column from i
\* on whose listing is not empty, Len(VALID_COLUMNS) + 1 when there is none.
NextColumn(f, ds, i) ==
    LET J == {j \in i..Len(VALID_COLUMNS) : Glob(f, ds, VALID_COLUMNS[j]) # {}}
    IN IF J = {} THEN Len(VALID_COLUMNS) + 1
       ELSE CHOOSE j \in J : \A k \in J : j <= k

NoVisit ==
    [path |-> <<>>, doc |-> NoFile, outcome |-> "none", dest |-> <<>>,
     destBefore |-> NoFile]

Zero == [p \in Paths |-> 0]

Bump(f, p) == [f EXCEPT ![p] = @ + 1]

current_column == VALID_COLUMNS[ci]

\* The loops move on to column i of the tree f: its directory is listed once,
\* when the loop over its files starts; columns with no directory or no file
\* are passed, and after the last column sync_tasks returns.
EnterColumn(f, ds, i) ==
    LET j == NextColumn(f, ds, i) IN
    /\ ci' = j
    /\ IF j > Len(VALID_COLUMNS)
       THEN pc' = "done" /\ pending' = {}
       ELSE pc' = "scan" /\ pending' = Glob(f, ds, VALID_COLUMNS[j])

\* The loop variables after the file named n has been visited, the tree
\* being f with the directories ds by then.
Advance(n, f, ds) ==
    IF pending \ {n} # {}
    THEN pending' = pending \ {n} /\ UNCHANGED <<pc, ci>>
    ELSE EnterColumn(f, ds, ci + 1)

\* No dashboard is generated while the reconciler is observed.
DashIdle ==
    /\ tree = [c \in ColSet |-> <<>>]
    /\ treeDirs = ColSet
    /\ phase = "idle"
    /\ tasks = [c \in ColSet |-> <<>>]
    /\ errors = <<>>
    /\ stats = <<>>
    /\ html = <<>>

\* sync_tasks is entered on a tree of at most MaxFiles files; a column
\* directory exists when it holds a file.
SyncInit ==
    /\ DashIdle
    /\ \E S \in SUBSET Paths :
          /\ Cardinality(S) <= MaxFiles
          /\ \E shape \in [S -> DocShapes] :
                fs = [p \in Paths |->
                        IF p \in S THEN MkDoc(shape[p], p) ELSE NoFile]
          /\ dirs = {p[1] : p \in S}
    /\ ci = NextColumn(fs, dirs, 1)
    /\ pc = IF ci > Len(VALID_COLUMNS) THEN "done" ELSE "scan"
    /\ pending = IF pc = "done" THEN {} ELSE Glob(fs, dirs, VALID_COLUMNS[ci])
    /\ moved_count = 0
    /\ error_count = 0
    /\ pass = 1
    /\ now = 1
    /\ faults = 0
    /\ fs0 = fs
    /\ first = <<0, 0>>
    /\ errAt = Zero
    /\ movAt = Zero
    /\ wfail = {}
    /\ last = NoVisit

\* open(task_file) or the read fails: except Exception counts an error.
ReadFails(n) ==
    LET p == <<current_column, n>> IN
    /\ pc = "scan"
    /\ n \in pending
    /\ faults < MaxFaults
    /\ faults' = faults + 1
    /\ error_count' = error_count + 1
    /\ errAt' = Bump(errAt, p)
    /\ last' = [path |-> p, doc |-> fs[p], outcome |-> "readfail",
                dest |-> p, destBefore |-> fs[p]]
    /\ Advance(n, fs, dirs)
    /\ UNCHANGED dashVars
    /\ UNCHANGED <<fs, dirs, moved_count, pass, now, fs0, first, movAt, wfail>>

\* The file is read and is not to be moved: skipped, rejected or in place.
VisitStay(n) ==
    LET p == <<current_column, n>>
        v == Verdict(fs[p], current_column)
    IN
    /\ pc = "scan"
    /\ n \in pending
    /\ v # "move"
    /\ error_count' = IF v \in {"raise", "invalid"}
                      THEN error_count + 1 ELSE error_count
    /\ errAt' = IF v \in {"raise", "invalid"} THEN Bump(errAt, p) ELSE errAt
    /\ last' = [path |-> p, doc |-> fs[p], outcome |-> v,
                dest |-> p, destBefore |-> fs[p]]
    /\ Advance(n, fs, dirs)
    /\ UNCHANGED dashVars
    /\ UNCHANGED <<fs, dirs, moved_count, pass, now, faults, fs0, first,
                   movAt, wfail>>

\* The move: mkdir, stamp, write the destination, unlink the source, count.
VisitMove(n) ==
    LET p == <<current_column, n>>
        doc == fs[p]
        d == dest_file(yaml_status(doc), n)
    IN
    /\ pc = "scan"
    /\ n \in pending
    /\ Verdict(doc, current_column) = "move"
    /\ dirs' = dirs \cup {d[1]}
    /\ fs' = Unlink(WriteFile(fs, d, Stamp(doc, now)), p)
    /\ now' = now + 1
    /\ moved_count' = moved_count + 1
    /\ movAt' = Bump(movAt, p)
    /\ last' = [path |-> p, doc |-> doc, outcome |-> "moved",
                dest |-> d, destBefore |-> fs[d]]
    /\ Advance(n, fs', dirs')
    /\ UNCHANGED dashVars
    /\ UNCHANGED <<error_count, pass, faults, fs0, first, errAt, wfail>>

\* The write of the destination fails: at open() (the destination is as it
\* was) or after open() has truncated it.  The unlink is not reached.
WriteFails(n, truncated) ==
    LET p == <<current_column, n>>
        doc == fs[p]
        d == dest_file(yaml_status(doc), n)
    IN
    /\ pc = "scan"
    /\ n \in pending
    /\ Verdict(doc, current_column) = "move"
    /\ faults < MaxFaults
    /\ faults' = faults + 1
    /\ dirs' = dirs \cup {d[1]}
    /\ fs' = IF truncated THEN WriteFile(fs, d, EmptyDoc) ELSE fs
    /\ now' = now + 1
    /\ error_count' = error_count + 1
    /\ errAt' = Bump(errAt, p)
    /\ wfail' = wfail \cup {<<p, doc>>}
    /\ last' = [path |-> p, doc |-> doc, outcome |-> "writefail",
                dest |-> d, destBefore |-> fs[d]]
    /\ Advance(n, fs', dirs')
    /\ UNCHANGED dashVars
    /\ UNCHANGED <<moved_count, pass, fs0, first, movAt>>

\* The destination is written and task_file.unlink() fails: the error is
\* counted, the move is not.
UnlinkFails(n) ==
    LET p == <<current_column, n>>
        doc == fs[p]
        d == dest_file(yaml_status(doc), n)
    IN
    /\ pc = "scan"
    /\ n \in pending
    /\ Verdict(doc, current_column) = "move"
    /\ faults < MaxFaults
    /\ faults' = faults + 1
    /\ dirs' = dirs \cup {d[1]}
    /\ fs' = WriteFile(fs, d, Stamp(doc, now))
    /\ now' = now + 1
    /\ error_count' = error_count + 1
    /\ errAt' = Bump(errAt, p)
    /\ last' = [path |-> p, doc |-> doc, outcome |-> "unlinkfail",
                dest |-> d, destBefore |-> fs[d]]
    /\ Advance(n, fs', dirs')
    /\ UNCHANGED dashVars
    /\ UNCHANGED <<moved_count, pass, fs0, first, movAt, wfail>>

\* sync_tasks is run again on the tree the first run left.
SecondRun ==
    /\ pc = "done"
    /\ pass = 1
    /\ pass' = 2
    /\ EnterColumn(fs, dirs, 1)
    /\ moved_count' = 0
    /\ error_count' = 0
    /\ errAt' = Zero
    /\ movAt' = Zero
    /\ wfail' = {}
    /\ last' = NoVisit
    /\ first' = <<moved_count, error_count>>
    /\ UNCHANGED dashVars
    /\ UNCHANGED <<fs, dirs, now, faults, fs0>>

SyncNext ==
    \/ \E n \in FileNames : ReadFails(n)
    \/ \E n \in FileNames : VisitStay(n)
    \/ \E n \in FileNames : VisitMove(n)
    \/ \E n \in FileNames : \E truncated \in BOOLEAN : WriteFails(n, truncated)
    \/ \E n \in FileNames : UnlinkFails(n)
    \/ SecondRun

SyncSpec == SyncInit /\ [][SyncNext]_vars

\* ------------------------------------------------------------------------
\* Properties of sync_tasks
\* ------------------------------------------------------------------------

\* The record at path p of the tree f: a mapping whose status is a string.
HasStatus(doc) == doc.kind = "dict" /\ ~StatusRaises(doc)

\* A file that sync_tasks counts as an error wherever it lies.
Rejected(doc) ==
    \/ doc.kind \in {"bad", "scalar"}
    \/ doc.kind = "dict" /\ StatusRaises(doc)
    \/ HasStatus(doc) /\ ~IsValidStatus(yaml_status(doc))

\* A record of the first tree that lies in another column than its status.
Misplaced0(p) ==
    /\ HasStatus(fs0[p])
    /\ IsValidStatus(yaml_status(fs0[p]))
    /\ yaml_status(fs0[p]) # p[1]

\* C1: after a complete pass that returns error_count = 0, every non-empty
\* record file lies in the column named by its lower-cased status.
C1_PlacementAfterCleanPass ==
    (pc = "done" /\ error_count = 0) =>
        \A p \in Paths :
            fs[p].kind \notin {"none", "empty"} =>
                HasStatus(fs[p]) /\ yaml_status(fs[p]) = p[1]

\* A clean first pass that has moved a record whose status is written in
\* upper case, and has moved one record onto another.
C1_Witness ==
    /\ pc = "done" /\ pass = 1 /\ error_count = 0 /\ moved_count = 2
    /\ \E p \in Paths : fs[p].status = "TODO" /\ fs[p].updated > 0
    /\ last.outcome = "moved" /\ last.destBefore # NoFile

\* C2: a move whose destination write failed has not deleted its source: at
\* the end of the pass the source is at its path with its content.
C2_SourceKeptAfterFailedWrite ==
    pc = "done" => \A w \in wfail : fs[w[1]] = w[2]

\* C3: a record that has to move onto an existing file of the destination
\* column is not moved: the visit counts an error, not a move, and both
\* files are as they were.
C3_NoOverwrite ==
    (last.outcome \in {"moved", "writefail", "unlinkfail"}
        /\ last.destBefore # NoFile) =>
        /\ last.outcome # "moved"
        /\ errAt[last.path] > 0
        /\ fs[last.dest] = last.destBefore
        /\ fs[last.path] = last.doc

C5_InvalidStatusLeftInPlace ==
    (pc = "done" /\ pass = 1 /\ faults = 0) =>
        \A p \in Paths :
            (HasStatus(fs0[p]) /\ ~IsValidStatus(yaml_status(fs0[p]))) =>
                fs[p] = fs0[p] /\ errAt[p] = 1 /\ movAt[p] = 0

\* C6: when the visit of some record has failed, every other record of a
\* valid status lying in another column is in the column of its status at the
\* end of the same pass.
C6_OthersRelocated ==
    (pc = "done" /\ pass = 1 /\ error_count > 0) =>
        \A p \in Paths :
            (Misplaced0(p) /\ errAt[p] = 0) =>
                LET d == fs[dest_file(yaml_status(fs0[p]), p[2])] IN
                d.kind = "dict" /\ d.body = fs0[p].body
                    /\ d.status = fs0[p].status

\* A record of the first tree that lies in the column of its status.
InPlace0(p) == HasStatus(fs0[p]) /\ yaml_status(fs0[p]) = p[1]

\* C15: a record whose lower-cased status is its column is at its path with
\* its content and its updated field after the pass; and when no I/O
\* operation fails on a tree whose files are all such records or empty, the
\* pass returns (0, 0) and leaves the tree as it was.
C15_InPlaceUnchanged ==
    (pc = "done" /\ pass = 1) =>
        /\ \A p \in Paths : InPlace0(p) => fs[p] = fs0[p]
        /\ (faults = 0
              /\ \A p \in Paths : fs0[p].kind \in {"none", "empty"} \/ InPlace0(p))
                => moved_count = 0 /\ error_count = 0 /\ fs = fs0

\* C16: right after a record has been relocated, the destination has the
\* file name of the source and lies in the directory named by the lower-cased
\* status, which exists; it holds the record as it was read, but for updated,
\* which is the time of the move; and no file is at the source path.
C16_RelocatedRecord ==
    last.outcome = "moved" =>
        /\ last.dest[2] = last.path[2]
        /\ last.dest[1] = Lower(last.doc.status)
        /\ last.dest[1] \in dirs
        /\ fs[last.dest].kind = last.doc.kind
        /\ fs[last.dest].status = last.doc.status
        /\ fs[last.dest].body = last.doc.body
        /\ fs[last.dest].updated = now - 1
        /\ fs[last.dest].updated > last.doc.updated
        /\ fs[last.path] = NoFile

\* A record whose status is written TODO has been moved out of another
\* column into todo, whose directory the move has created.
C16_Witness ==
    /\ last.outcome = "moved"
    /\ last.doc.status = "TODO"
    /\ last.dest[1] = "todo"
    /\ \A n \in FileNames : fs0[<<"todo", n>>] = NoFile
    /\ pass = 1

\* The columns holding a file of the name n in the tree f.
ColumnsOf(f, n) == {c \in ColSet : f[<<c, n>>] # NoFile}

\* C17: when every file name of the first tree lies in one column, every
\* one of these names lies in exactly one column after the pass, whichever
\* reads, writes or deletes have failed.
C17_OneColumnPerName ==
    (pc = "done" /\ pass = 1
        /\ \A n \in FileNames : Cardinality(ColumnsOf(fs0, n)) <= 1) =>
        \A n \in FileNames :
            ColumnsOf(fs0, n) # {} => Cardinality(ColumnsOf(fs, n)) = 1

\* C18, for sync_tasks: when no I/O operation fails, a file of the first
\* tree that parses to an empty document is at its path as it was after the
\* pass, and its visit has counted no move and no error.
C18_EmptySkippedBySync ==
    (pc = "done" /\ pass = 1 /\ faults = 0) =>
        \A p \in Paths :
            fs0[p].kind = "empty" =>
                fs[p] = fs0[p] /\ errAt[p] = 0 /\ movAt[p] = 0

\* A step that visits a file: the file at last'.path, read as last'.doc.
IsVisit == pass' = pass /\ last' # last

\* The visit has written the record into another column.
WroteDestination ==
    /\ last'.dest # last'.path
    /\ fs'[last'.dest] # fs[last'.dest]
    /\ fs'[last'.dest].kind = "dict"
    /\ fs'[last'.dest].body = last'.doc.body

\* The visit has raised an error, or has found an invalid status.
RaisedOrInvalid ==
    \/ faults' > faults
    \/ Rejected(last'.doc)

\* What a visit adds to a counter.
Added(before, after, counts) == after = before + (IF counts THEN 1 ELSE 0)

\* C19 as stated: the counters start at 0; a visit adds 1 to moved_count
\* when it has written the destination and 0 otherwise, 1 to error_count
\* when it has raised an error or found an invalid status and 0 otherwise,
\* and never to both.
C19_CountersAsStated ==
    /\ moved_count = 0 /\ error_count = 0
    /\ [][/\ pass' # pass => moved_count' = 0 /\ error_count' = 0
          /\ IsVisit =>
                /\ Added(moved_count, moved_count', WroteDestination)
                /\ Added(error_count, error_count', RaisedOrInvalid)
                /\ ~(moved_count' > moved_count /\ error_count' > error_count)
         ]_vars

\* C19 as amended: the counters start at 0; a visit adds 1 to moved_count
\* when it has written the destination and deleted the source and 0
\* otherwise, 1 to error_count when it has raised an error or found an
\* invalid status and 0 otherwise, and never to both: a file whose
\* destination was written and whose delete failed is counted as an error.
C19_Counters ==
    /\ moved_count = 0 /\ error_count = 0
    /\ [][/\ pass' # pass => moved_count' = 0 /\ error_count' = 0
          /\ IsVisit =>
                /\ Added(moved_count, moved_count',
                         WroteDestination /\ fs'[last'.path] = NoFile)
                /\ Added(error_count, error_count', RaisedOrInvalid)
                /\ ~(moved_count' > moved_count /\ error_count' > error_count)
                /\ (WroteDestination /\ fs'[last'.path] # NoFile)
                      => error_count' > error_count
         ]_vars

\* A pass has moved one record and has written the destination of another
\* whose delete failed: it returns (1, 1).
C19_Witness ==
    /\ pc = "done" /\ pass = 1
    /\ moved_count = 1 /\ error_count = 1
    /\ last.outcome = "unlinkfail"
    /\ fs[last.dest].body = last.doc.body

\* The files of the first tree.
Files0 == {p \in Paths : fs0[p] # NoFile}

\* C20: in the first pass a record that is moved, or that the pass tries to
\* move, has not been moved before in this pass; a record that was moved is
\* found in the column of its status when its new column is scanned, and is
\* not moved or written again; so moved_count is never greater than the
\* number of files the pass started with.
C20_MovedAtMostOnce ==
    pass = 1 =>
        /\ last.outcome \in {"moved", "writefail", "unlinkfail"}
              => last.doc.updated = 0
        /\ (last.outcome # "none" /\ last.doc.updated > 0) =>
              /\ last.outcome \in {"inplace", "readfail"}
              /\ Lower(last.doc.status) = last.path[1]
              /\ fs[last.path] = last.doc
        /\ \A p \in Paths : movAt[p] <= 1
        /\ moved_count <= Cardinality(Files0)

\* A record moved into a column that was not scanned yet has been found
\* there and left as the move wrote it.
C20_Witness ==
    /\ pass = 1
    /\ last.outcome = "inplace"
    /\ last.doc.updated > 0
    /\ movAt[last.doc.body] = 1
    /\ moved_count = 1

\* ------------------------------------------------------------------------
\* Configuration of generate-dashboard.py
\* ------------------------------------------------------------------------

COLUMNS == <<"backlog", "todo", "in_progress", "stalled", "done">>

COLUMN_LABELS ==
    [c \in ColSet |->
        CASE c = "backlog" -> "Backlog"
          [] c = "todo" -> "To Do"
          [] c = "in_progress" -> "In Progress"
          [] c = "stalled" -> "Stalled"
          [] c = "done" -> "Done"]

PriorityKeys == {"urgent", "high", "medium", "low"}

PRIORITY_CONFIG ==
    [k \in PriorityKeys |->
        CASE k = "urgent" -> [order |-> 4, label |-> "Urgent"]
          [] k = "high" -> [order |-> 3, label |-> "High"]
          [] k = "medium" -> [order |-> 2, label |-> "Medium"]
          [] k = "low" -> [order |-> 1, label |-> "Low"]]

\* ------------------------------------------------------------------------
\* Text: a string is the sequence of its characters
\* ------------------------------------------------------------------------

\* A raw text value of a mapping: t is "absent", "null", "str" or "int", v the
\* characters of str(value).
TAbsent == [t |-> "absent", v |-> <<>>]

TNull == [t |-> "null", v |-> <<>>]

TStr(chars) == [t |-> "str", v |-> chars]

TInt(digits) == [t |-> "int", v |-> digits]

RECURSIVE Replace(_, _, _)
\* str.replace(c, r) for a single character c.
Replace(str, c, r) ==
    IF str = <<>> THEN <<>>
    ELSE (IF Head(str) = c THEN r ELSE <<Head(str)>>)
            \o Replace(Tail(str), c, r)

\* html.escape(s, quote=True): five replacements, the ampersand first.
HtmlEscape(str) ==
    LET a == Replace(str, "&", <<"&", "a", "m", "p", ";">>)
        b == Replace(a, "<", <<"&", "l", "t", ";">>)
        c == Replace(b, ">", <<"&", "g", "t", ";">>)
        d == Replace(c, "\"", <<"&", "q", "u", "o", "t", ";">>)
    IN Replace(d, "'", <<"&", "#", "x", "2", "7", ";">>)

\* The value is escaped a second time.
safe_html_escape_twice(text) ==
    IF text.t = "null" THEN <<>> ELSE HtmlEscape(HtmlEscape(text.v))

\* safe_html_escape(text), text being the value found (never absent).
safe_html_escape(text) ==
    IF text.t = "null" THEN <<>> ELSE HtmlEscape(text.v)

\* dict.get(key, default) for a text value.
GetText(value, default) == IF value.t = "absent" THEN TStr(default) ELSE value

\* The truth value Python gives a raw value: null, false and the empty string
\* are false; true, a non-empty string and a number other than 0 are true.
Truthy(x) == x \notin {Absent, Null, False, ""}

\* ------------------------------------------------------------------------
\* The files the dashboard is generated from
\* ------------------------------------------------------------------------

\* kind is "bad" (yaml.YAMLError), "unreadable" (open or read fails), "empty",
\* "scalar" or "dict"; tags is [t |-> "list", items |-> <<text, ...>>] or
\* [t |-> "other"] with no items (absent counts as the default list []).
RawDoc(k, title, description, category, priority, tags, private) ==
    [kind |-> k, title |-> title, description |-> description,
     category |-> category, priority |-> priority, tags |-> tags,
     private |-> private]

NoTags == [t |-> "list", items |-> <<>>]

Plain(k) == RawDoc(k, TStr(<<"t">>), TAbsent, TAbsent, Absent, NoTags, Absent)

PriorityRaw == {Absent, "urgent", "HIGH", "low", "critical", Null, NonStr}

PrivateRaw == {True, False, "yes"}

DashDocs ==
    {Plain(k) : k \in {"bad", "unreadable", "empty", "scalar"}}
        \cup {[Plain("dict") EXCEPT !.priority = p] : p \in PriorityRaw}
        \cup {[Plain("dict") EXCEPT !.private = x, !.category = c,
                                    !.priority = "low"] :
                x \in PrivateRaw, c \in {TStr(<<"x">>), TStr(<<"&">>)}}
        \cup {RawDoc("dict", TStr(<<"<", "&">>), TStr(<<"\"">>), TNull, "urgent",
                     [t |-> "list", items |-> <<TStr(<<"'", ">">>), TNull>>],
                     Null),
              RawDoc("dict", TAbsent, TNull, TInt(<<"7">>), "urgent",
                     [t |-> "other", items |-> <<>>], False)}

\* ------------------------------------------------------------------------
\* load_tasks
\* ------------------------------------------------------------------------

\* task_data.get('priority', 'medium').lower() raises AttributeError when the
\* key holds null or a number.
PriorityRaises(doc) == doc.priority \in {Null, NonStr}

NormalPriority(raw) ==
    LET priority == Lower(IF raw = Absent THEN "medium" ELSE raw)
    IN IF priority \in PriorityKeys THEN priority ELSE "medium"

RECURSIVE EscapeAll(_)
EscapeAll(items) ==
    IF items = <<>> THEN <<>>
    ELSE <<safe_html_escape(Head(items))>> \o EscapeAll(Tail(items))

\* The defaults 'Untitled' and 'general' of lines 63 and 65.
Untitled == <<"U", "n", "t", "i", "t", "l", "e", "d">>

General == <<"g", "e", "n", "e", "r", "a", "l">>

\* The record load_tasks appends for the mapping doc, file number i of column.
Materialize(doc, column, i) ==
    [title |-> safe_html_escape(GetText(doc.title, Untitled)),
     description |-> safe_html_escape(GetText(doc.description, <<>>)),
     category |-> safe_html_escape(GetText(doc.category, General)),
     priority |-> NormalPriority(doc.priority),
     tags |-> IF doc.tags.t = "list" THEN EscapeAll(doc.tags.items) ELSE <<>>,
     filename |-> i,
     column |-> column,
     private |-> IF doc.private = Absent THEN False ELSE doc.private]

\* The body of the loop over the files of a column, for one file: what is
\* appended to tasks[column] and to errors.
LoadFile(doc, column, i) ==
    CASE doc.kind = "bad" ->
            [task |-> <<>>, diag |-> <<[kind |-> "parse", at |-> <<column, i>>]>>]
      [] doc.kind = "unreadable" ->
            [task |-> <<>>, diag |-> <<[kind |-> "load", at |-> <<column, i>>]>>]
      [] doc.kind = "empty" ->
            [task |-> <<>>, diag |-> <<>>]
      [] doc.kind = "scalar" ->
            [task |-> <<>>, diag |-> <<[kind |-> "load", at |-> <<column, i>>]>>]
      [] OTHER ->
            IF PriorityRaises(doc)
            THEN [task |-> <<>>,
                  diag |-> <<[kind |-> "load", at |-> <<column, i>>]>>]
            ELSE [task |-> <<Materialize(doc, column, i)>>, diag |-> <<>>]

RECURSIVE LoadFiles(_, _, _)
\* The files of column from number i on.
LoadFiles(docs, column, i) ==
    IF i > Len(docs) THEN [task |-> <<>>, diag |-> <<>>]
    ELSE LET one == LoadFile(docs[i], column, i)
             rest == LoadFiles(docs, column, i + 1)
         IN [task |-> one.task \o rest.task, diag |-> one.diag \o rest.diag]

\* One column: a warning and no record when its directory does not exist.
LoadColumn(column) ==
    IF column \notin treeDirs
    THEN [task |-> <<>>, diag |-> <<[kind |-> "missing", at |-> <<column, 0>>]>>]
    ELSE LoadFiles(tree[column], column, 1)

Order(task) == PRIORITY_CONFIG[task.priority].order

RECURSIVE InsertByPriorityUnstable(_, _)
\* task put into the sorted list before the records of its rank.
InsertByPriorityUnstable(task, sorted) ==
    IF sorted = <<>> THEN <<task>>
    ELSE IF Order(Head(sorted)) > Order(task)
         THEN <<Head(sorted)>> \o InsertByPriorityUnstable(task, Tail(sorted))
         ELSE <<task>> \o sorted

RECURSIVE InsertByPriority(_, _)
\* task put into the sorted list behind every record of its rank or higher.
InsertByPriority(task, sorted) ==
    IF sorted = <<>> THEN <<task>>
    ELSE IF Order(Head(sorted)) >= Order(task)
         THEN <<Head(sorted)>> \o InsertByPriority(task, Tail(sorted))
         ELSE <<task>> \o sorted

RECURSIVE SortByPriority(_)
\* list.sort(key=order, reverse=True): stable, highest rank first.
SortByPriority(list) ==
    IF list = <<>> THEN <<>>
    ELSE InsertByPriority(list[Len(list)],
                          SortByPriority(SubSeq(list, 1, Len(list) - 1)))

RECURSIVE LoadErrors(_)
LoadErrors(i) ==
    IF i > Len(COLUMNS) THEN <<>>
    ELSE LoadColumn(COLUMNS[i]).diag \o LoadErrors(i + 1)

load_tasks ==
    [tasks |-> [c \in ColSet |-> SortByPriority(LoadColumn(c).task)],
     errors |-> LoadErrors(1)]

\* ------------------------------------------------------------------------
\* calculate_stats
\* ------------------------------------------------------------------------

\* d[k] = d.get(k, 0) + 1
CountIn(d, k) ==
    IF k \in DOMAIN d THEN [d EXCEPT ![k] = @ + 1] ELSE d @@ (k :> 1)

\* The privacy test comparing with the YAML value true instead of taking the
\* truth value.
StatsSkipsOnlyTrue(task, include_private) ==
    ~include_private /\ task.private = True

\* if not include_private and task.get('private', False): continue
StatsSkips(task, include_private) ==
    ~include_private /\ Truthy(task.private)

\* The name of the counter the if/elif chain of lines 129-138 adds to.
ColumnCounter(column) ==
    CASE column = "backlog" -> "backlog"
      [] column = "todo" -> "todo"
      [] column = "in_progress" -> "active"
      [] column = "stalled" -> "stalled"
      [] column = "done" -> "done"

\* The loop body with the category counted before the privacy test.
StatsStepCategoryFirst(acc, column, task, include_private) ==
    IF StatsSkips(task, include_private)
    THEN [acc EXCEPT !.by_category = CountIn(@, task.category)]
    ELSE [acc EXCEPT !.total = @ + 1,
                     !.by_priority = CountIn(@, task.priority),
                     !.by_category = CountIn(@, task.category),
                     ![ColumnCounter(column)] = @ + 1]

\* The body of the loop over the records of a column, for one record.
StatsStep(acc, column, task, include_private) ==
    IF StatsSkips(task, include_private)
    THEN acc
    ELSE [acc EXCEPT !.total = @ + 1,
                     !.by_priority = CountIn(@, task.priority),
                     !.by_category = CountIn(@, task.category),
                     ![ColumnCounter(column)] = @ + 1]

RECURSIVE StatsOfColumn(_, _, _, _, _)
StatsOfColumn(acc, column, list, i, include_private) ==
    IF i > Len(list) THEN acc
    ELSE StatsOfColumn(StatsStep(acc, column, list[i], include_private),
                       column, list, i + 1, include_private)

RECURSIVE StatsFrom(_, _, _, _)
\* for column, task_list in tasks.items(): the columns in the order of COLUMNS.
StatsFrom(acc, t, j, include_private) ==
    IF j > Len(COLUMNS) THEN acc
    ELSE StatsFrom(StatsOfColumn(acc, COLUMNS[j], t[COLUMNS[j]], 1,
                                 include_private),
                   t, j + 1, include_private)

\* The rate cut to a tenth instead of rounded.
CompletionRateTruncated(done, total) ==
    IF total > 0 THEN (done * 1000) \div total ELSE 0

\* round(done / total * 100, 1) in tenths of a percent, 0 when total is 0; a
\* tie rounds to the even tenth.
CompletionRate(done, total) ==
    IF total > 0
    THEN LET q == (done * 1000) \div total
             r == (done * 1000) % total
         IN IF 2 * r > total \/ (2 * r = total /\ q % 2 = 1) THEN q + 1 ELSE q
    ELSE 0

StatsStart ==
    [total |-> 0, backlog |-> 0, todo |-> 0, active |-> 0, stalled |-> 0,
     done |-> 0, by_priority |-> [k \in PriorityKeys |-> 0],
     by_category |-> [k \in {} |-> 0]]

calculate_stats(t, include_private) ==
    LET acc == StatsFrom(StatsStart, t, 1, include_private) IN
    [total |-> acc.total, backlog |-> acc.backlog, todo |-> acc.todo,
     active |-> acc.active, stalled |-> acc.stalled, done |-> acc.done,
     completion_rate |-> CompletionRate(acc.done, acc.total),
     by_priority |-> acc.by_priority, by_category |-> acc.by_category]

\* ------------------------------------------------------------------------
\* generate_html
\* ------------------------------------------------------------------------

\* No record is filtered out of the public document.
HtmlKeepsAll(task, is_public) == TRUE

\* [t for t in task_list if not t.get('private', False)] when is_public
HtmlKeeps(task, is_public) == ~is_public \/ ~Truthy(task.private)

\* The card of one record; of names the record it was made from and is not
\* part of the document.  The description and tags blocks are rendered when
\* the value is not empty.
Card(task) ==
    [of |-> <<task.column, task.filename>>,
     title |-> task.title,
     priority |-> task.priority,
     label |-> PRIORITY_CONFIG[task.priority].label,
     description |-> task.description,
     tags |-> task.tags]

RECURSIVE Cards(_)
Cards(list) ==
    IF list = <<>> THEN <<>> ELSE <<Card(Head(list))>> \o Cards(Tail(list))

Shown(list, is_public) ==
    LET Keep(task) == HtmlKeeps(task, is_public) IN SelectSeq(list, Keep)

generate_html(t, st, is_public) ==
    [public |-> is_public,
     stats |-> [total |-> st.total, backlog |-> st.backlog, todo |-> st.todo,
                active |-> st.active, stalled |-> st.stalled,
                done |-> st.done, completion_rate |-> st.completion_rate],
     columns |-> [c \in ColSet |->
                    [label |-> COLUMN_LABELS[c],
                     task_count |-> Len(Shown(t[c], is_public)),
                     cards |-> Cards(Shown(t[c], is_public))]]]

\* ------------------------------------------------------------------------
\* main() of generate-dashboard.py
\* ------------------------------------------------------------------------

\* The reconciler is not run while the dashboard is generated.
SyncIdle ==
    /\ fs = [p \in Paths |-> NoFile]
    /\ dirs = {}
    /\ pc = "done"
    /\ ci = Len(VALID_COLUMNS) + 1
    /\ pending = {}
    /\ moved_count = 0
    /\ error_count = 0
    /\ pass = 1
    /\ now = 1
    /\ faults = 0
    /\ fs0 = fs
    /\ first = <<0, 0>>
    /\ errAt = Zero
    /\ movAt = Zero
    /\ wfail = {}
    /\ last = NoVisit

\* The files of column c among docs, which are listed column by column.
FilesOf(docs, cols, c) ==
    LET I == {i \in DOMAIN docs : COLUMNS[cols[i]] = c}
        First == IF I = {} THEN 1 ELSE CHOOSE i \in I : \A k \in I : i <= k
    IN SubSeq(docs, First, First + Cardinality(I) - 1)

DashInit ==
    /\ SyncIdle
    /\ \E n \in 0..MaxCards :
          \E docs \in [1..n -> DashDocs], cols \in [1..n -> 1..Len(COLUMNS)] :
             /\ \A i \in 1..n, k \in 1..n : i <= k => cols[i] <= cols[k]
             /\ tree = [c \in ColSet |-> FilesOf(docs, cols, c)]
             /\ \E all \in BOOLEAN :
                   treeDirs = IF all THEN ColSet
                              ELSE {COLUMNS[cols[i]] : i \in 1..n}
    /\ phase = "start"
    /\ tasks = [c \in ColSet |-> <<>>]
    /\ errors = <<>>
    /\ stats = <<>>
    /\ html = <<>>

\* tasks, errors = load_tasks()
LoadTasks ==
    /\ phase = "start"
    /\ tasks' = load_tasks.tasks
    /\ errors' = load_tasks.errors
    /\ phase' = "loaded"
    /\ UNCHANGED <<tree, treeDirs, stats, html>>
    /\ UNCHANGED syncVars

\* stats_private = calculate_stats(tasks, include_private=True), and later
\* stats_public = calculate_stats(tasks, include_private=False)
CalculateStats ==
    /\ phase \in {"loaded", "html_private"}
    /\ stats' = calculate_stats(tasks, phase = "loaded")
    /\ phase' = IF phase = "loaded" THEN "stats_private" ELSE "stats_public"
    /\ UNCHANGED <<tree, treeDirs, tasks, errors, html>>
    /\ UNCHANGED syncVars

\* html_private = generate_html(tasks, stats_private, is_public=False), and
\* later html_public = generate_html(tasks, stats_public, is_public=True)
GenerateHtml ==
    /\ phase \in {"stats_private", "stats_public"}
    /\ html' = generate_html(tasks, stats, phase = "stats_public")
    /\ phase' = IF phase = "stats_private" THEN "html_private"
                ELSE "html_public"
    /\ UNCHANGED <<tree, treeDirs, tasks, errors, stats>>
    /\ UNCHANGED syncVars

DashNext ==
    \/ LoadTasks
    \/ CalculateStats
    \/ GenerateHtml

DashSpec == DashInit /\ [][DashNext]_vars

\* Well-formed records: the four ranks of priority, and a private record.
BatchDocs ==
    {[Plain("dict") EXCEPT !.priority = p] :
        p \in {Absent, "urgent", "HIGH", "low"}}
        \cup {[Plain("dict") EXCEPT !.private = True, !.category = TStr(<<"x">>),
                                    !.priority = "low"]}

\* main() on a tree of at most MaxBatch well-formed records lying in the
\* columns todo and done.
BatchInit ==
    /\ SyncIdle
    /\ \E n \in 0..MaxBatch :
          \E docs \in [1..n -> BatchDocs], cols \in [1..n -> {2, 5}] :
             /\ \A i \in 1..n, k \in 1..n : i <= k => cols[i] <= cols[k]
             /\ tree = [c \in ColSet |-> FilesOf(docs, cols, c)]
    /\ treeDirs = ColSet
    /\ phase = "start"
    /\ tasks = [c \in ColSet |-> <<>>]
    /\ errors = <<>>
    /\ stats = <<>>
    /\ html = <<>>

BatchSpec == BatchInit /\ [][DashNext]_vars

\* ------------------------------------------------------------------------
\* Properties of the dashboard pipeline
\* ------------------------------------------------------------------------

RECURSIVE SumOver(_, _)
\* The sum of f over the keys K.
SumOver(f, K) ==
    IF K = {} THEN 0
    ELSE LET k == CHOOSE x \in K : TRUE IN f[k] + SumOver(f, K \ {k})

\* The loaded records, each named by its column and place in the column.
Loaded == UNION {{<<c, i>> : i \in DOMAIN tasks[c]} : c \in ColSet}

Task(x) == tasks[x[1]][x[2]]

Public == {x \in Loaded : ~Truthy(Task(x).private)}

CardsIn(c) == html.columns[c].cards

\* C7: the total of calculate_stats(tasks, include_private=False) is the
\* number of cards of the public document, and each column's statistic is
\* the number of cards in that column.
C7_PublicTotalIsCardCount ==
    phase = "html_public" =>
        /\ stats.total = SumOver([c \in ColSet |-> Len(CardsIn(c))], ColSet)
        /\ \A c \in ColSet : stats[ColumnCounter(c)] = Len(CardsIn(c))
        /\ \A c \in ColSet : html.columns[c].task_count = Len(CardsIn(c))

\* The public document shows a card and leaves out a record whose private
\* value is a string, not the YAML value true.
C7_Witness ==
    /\ phase = "html_public" /\ stats.total = 1
    /\ \E x \in Loaded : Task(x).private = "yes"

\* C8: the public document has no card of a record whose private field is
\* true, in any column.
C8_NoPrivateCardInPublic ==
    (phase = "html_public" /\ html.public) =>
        \A x \in Loaded :
            Task(x).private = True =>
                \A c \in ColSet :
                    \A k \in DOMAIN CardsIn(c) :
                        CardsIn(c)[k].of # <<Task(x).column, Task(x).filename>>

\* The public document shows one record of a column and leaves out a private
\* record of the same column.
C8_Witness ==
    /\ phase = "html_public" /\ html.public
    /\ \E x \in Loaded, y \in Loaded :
          /\ x[1] = y[1] /\ Task(x).private = True /\ Task(y).private = False
          /\ Len(CardsIn(x[1])) = 1

\* C9: with include_private false every statistic counts the records that are
\* not private and no other: the total, the five column counters, the
\* priority counters and the category counters, whose sums are the total;
\* by_priority has the four priority keys and by_category a key for each
\* category of a counted record and for no other.
C9_UniformExclusion ==
    phase = "stats_public" =>
        /\ stats.total = Cardinality(Public)
        /\ \A c \in ColSet :
              stats[ColumnCounter(c)] = Cardinality({x \in Public : x[1] = c})
        /\ stats.total = stats.backlog + stats.todo + stats.active
                            + stats.stalled + stats.done
        /\ DOMAIN stats.by_priority = PriorityKeys
        /\ \A k \in PriorityKeys :
              stats.by_priority[k]
                  = Cardinality({x \in Public : Task(x).priority = k})
        /\ stats.total = SumOver(stats.by_priority, PriorityKeys)
        /\ DOMAIN stats.by_category = {Task(x).category : x \in Public}
        /\ \A k \in DOMAIN stats.by_category :
              stats.by_category[k]
                  = Cardinality({x \in Public : Task(x).category = k})
        /\ stats.total = SumOver(stats.by_category, DOMAIN stats.by_category)

\* A private record and a counted one are loaded, and the category of the
\* private record is no key of by_category.
C9_Witness ==
    /\ phase = "stats_public" /\ stats.total = 1
    /\ \E x \in Loaded :
          /\ Truthy(Task(x).private)
          /\ Task(x).category \notin DOMAIN stats.by_category

\* C10: every file holding a mapping is loaded into its column, whatever its
\* raw priority, with a priority among the four keys: the lower-cased raw
\* value when that is a key, medium otherwise.
C10_PriorityNormalized ==
    phase # "start" =>
        \A c \in ColSet :
            \A i \in DOMAIN tree[c] :
                tree[c][i].kind = "dict" =>
                    \E k \in DOMAIN tasks[c] :
                        /\ tasks[c][k].filename = i
                        /\ tasks[c][k].priority \in PriorityKeys
                        /\ tasks[c][k].priority =
                              IF Lower(tree[c][i].priority) \in PriorityKeys
                              THEN Lower(tree[c][i].priority)
                              ELSE "medium"

\* The rank of a normalized priority.
Rank(priority) ==
    CASE priority = "urgent" -> 4
      [] priority = "high" -> 3
      [] priority = "medium" -> 2
      [] priority = "low" -> 1

\* The records of column c as load_tasks appended them, before the sort.
Appended(c) == LoadColumn(c).task

\* C11: after load_tasks each column is ordered by priority rank, highest
\* first; records of one rank are in the order their files were listed; and
\* the column holds the records appended for it, each once.
C11_SortedStablePermutation ==
    phase # "start" =>
        \A c \in ColSet :
            /\ \A i \in DOMAIN tasks[c], k \in DOMAIN tasks[c] :
                  i < k =>
                    /\ Rank(tasks[c][i].priority) >= Rank(tasks[c][k].priority)
                    /\ Rank(tasks[c][i].priority) = Rank(tasks[c][k].priority)
                          => tasks[c][i].filename < tasks[c][k].filename
            /\ Len(tasks[c]) = Len(Appended(c))
            /\ \A i \in DOMAIN Appended(c) :
                  \E k \in DOMAIN tasks[c] : tasks[c][k] = Appended(c)[i]

\* Files listed as low, urgent, low, high are loaded as urgent, high, low,
\* low, the first file before the third.
C11_Witness ==
    /\ phase = "loaded"
    /\ Len(tree["todo"]) = 4
    /\ [i \in 1..4 |-> tree["todo"][i].priority] = <<"low", "urgent", "low", "HIGH">>
    /\ [i \in 1..4 |-> tasks["todo"][i].filename] = <<2, 4, 1, 3>>

\* The files of the tree, each named by its column and place in the listing.
Files == UNION {{<<c, i>> : i \in DOMAIN tree[c]} : c \in ColSet}

File(x) == tree[x[1]][x[2]]

\* The file cannot be read or decoded.
Undecodable(x) == File(x).kind \in {"bad", "unreadable"}

\* The diagnostics about the file, or about the column when x[2] = 0.
DiagsAt(x) == {k \in DOMAIN errors : errors[k].at = x}

IsLoaded(x) ==
    \E k \in DOMAIN tasks[x[1]] : tasks[x[1]][k].filename = x[2]

\* C12: a file that cannot be read or decoded adds one diagnostic and no
\* record, and every file that decodes to a mapping, in its column and in the
\* others, is loaded all the same; a column whose directory is missing adds
\* one warning and stays empty, and the files of the other columns are loaded.
C12_FailureSkipsOnlyThatFile ==
    phase # "start" =>
        /\ \A x \in Files :
              Undecodable(x) =>
                /\ Cardinality(DiagsAt(x)) = 1
                /\ ~IsLoaded(x)
                /\ \A y \in Files : File(y).kind = "dict" => IsLoaded(y)
        /\ \A c \in ColSet :
              c \notin treeDirs =>
                /\ Cardinality(DiagsAt(<<c, 0>>)) = 1
                /\ tasks[c] = <<>>
                /\ \A y \in Files : File(y).kind = "dict" => IsLoaded(y)

\* The five entities html.escape writes, each with the character it stands for.
Entities ==
    {[ch |-> "&", ent |-> <<"&", "a", "m", "p", ";">>],
     [ch |-> "<", ent |-> <<"&", "l", "t", ";">>],
     [ch |-> ">", ent |-> <<"&", "g", "t", ";">>],
     [ch |-> "\"", ent |-> <<"&", "q", "u", "o", "t", ";">>],
     [ch |-> "'", ent |-> <<"&", "#", "x", "2", "7", ";">>]}

\* The entities str begins with.
EntitiesAt(str) ==
    {e \in Entities :
        Len(e.ent) <= Len(str) /\ SubSeq(str, 1, Len(e.ent)) = e.ent}

RECURSIVE Unescape(_)
\* What a browser shows for str: each entity read as its character, once.
Unescape(str) ==
    IF str = <<>> THEN <<>>
    ELSE IF EntitiesAt(str) # {}
         THEN LET e == CHOOSE x \in EntitiesAt(str) : TRUE
              IN <<e.ch>> \o Unescape(SubSeq(str, Len(e.ent) + 1, Len(str)))
         ELSE <<Head(str)>> \o Unescape(Tail(str))

\* No character of str is markup: no <, >, quote or apostrophe, and every
\* ampersand begins an entity.
NoMarkup(str) ==
    \A i \in DOMAIN str :
        /\ str[i] \notin {"<", ">", "\"", "'"}
        /\ str[i] = "&" => EntitiesAt(SubSeq(str, i, Len(str))) # {}

\* The characters of str(value) for the raw value of a key, default when the
\* key is absent; null is shown as the empty string.
RawChars(value, default) ==
    CASE value.t = "absent" -> default
      [] value.t = "null" -> <<>>
      [] OTHER -> value.v

\* out is raw escaped once: it has no markup and reads as raw.
EscapedOnce(out, raw) == NoMarkup(out) /\ Unescape(out) = raw

\* C13: the title, the description and each tag of every card of the
\* document are the raw values of the file escaped exactly once, and so is
\* the category of every loaded record.
C13_EscapedExactlyOnce ==
    phase \in {"html_private", "html_public"} =>
        /\ \A c \in ColSet :
              \A k \in DOMAIN CardsIn(c) :
                LET card == CardsIn(c)[k]
                    src == File(card.of)
                IN /\ EscapedOnce(card.title, RawChars(src.title, Untitled))
                   /\ EscapedOnce(card.description,
                                  RawChars(src.description, <<>>))
                   /\ Len(card.tags) = Len(src.tags.items)
                   /\ \A j \in DOMAIN card.tags :
                         EscapedOnce(card.tags[j],
                                     RawChars(src.tags.items[j], <<>>))
        /\ \A x \in Loaded :
              EscapedOnce(Task(x).category,
                          RawChars(File(<<x[1], Task(x).filename>>).category,
                                   General))

\* The public document has a card whose title was <& and whose tag was '>.
C13_Witness ==
    /\ phase = "html_public"
    /\ \E c \in ColSet :
          \E k \in DOMAIN CardsIn(c) :
             /\ File(CardsIn(c)[k].of).title = TStr(<<"<", "&">>)
             /\ CardsIn(c)[k].title
                   = <<"&", "l", "t", ";", "&", "a", "m", "p", ";">>
             /\ CardsIn(c)[k].tags[1]
                   = <<"&", "#", "x", "2", "7", ";", "&", "g", "t", ";">>

\* The loaded records calculate_stats counts in the phase reached.
Counted ==
    IF phase = "stats_public" THEN Public ELSE Loaded

\* C14: completion_rate is 0 when no record is counted; otherwise it is the
\* tenth of a percent nearest to done / total * 100, done and total being the
\* counts of the records left by the privacy filter.
C14_CompletionRate ==
    phase \in {"stats_private", "stats_public"} =>
        LET total == Cardinality(Counted)
            done == Cardinality({x \in Counted : x[1] = "done"})
            rate == stats.completion_rate
        IN /\ stats.total = total
           /\ stats.done = done
           /\ total = 0 => rate = 0
           /\ total > 0 =>
                /\ 2 * (rate * total - done * 1000) <= total
                /\ 2 * (done * 1000 - rate * total) <= total
           /\ (total = 4 /\ done = 1) => rate = 250

\* One record of three is done once a private record is left out: 33.3.
C14_Witness ==
    /\ phase = "stats_public"
    /\ Cardinality(Loaded) = 4
    /\ stats.total = 3 /\ stats.done = 1 /\ stats.completion_rate = 333

\* C18, for load_tasks: a file that parses to an empty document adds no
\* record and no diagnostic.
C18_EmptySkippedByLoad ==
    phase # "start" =>
        \A x \in Files :
            File(x).kind = "empty" => ~IsLoaded(x) /\ DiagsAt(x) = {}

====
